---------------------------- MODULE Spec2Model ----------------------------
(***************************************************************************)
(* A model of nf_core/launch.py: the Launch object, the parameter catalog  *)
(* built from a schema or inferred from the pipeline configuration, the    *)
(* grouping of the catalog, the interactive session over run flags and     *)
(* parameters, the command and the files build_command makes of it, and    *)
(* the confirmed launch.                                                   *)
(*                                                                         *)
(* Text is a sequence of one-character strings, so that the character-level*)
(* operations of the code (isdigit, float, int, strip, lower, split) are   *)
(* computed rather than assumed.  A Python value is a record               *)
(*   [ty, n, e, s]                                                         *)
(* ty the runtime type ("NoneType", "bool", "int", "float", "str"), n/e a  *)
(* number (n * 10^e for a float, n for an int, 0/1 for a bool), s the text *)
(* of a str (or the name of a non-finite float).                           *)
(*                                                                         *)
(* Dictionaries are kept in insertion order (a sequence of [k, v] records), *)
(* as Python 3.7 and later iterate them; the rest of the repository needs  *)
(* a later Python still.  Texts are ASCII.                                 *)
(***************************************************************************)
EXTENDS Integers, Sequences, FiniteSets, TLC

\* ------------------------------------------------------------------ bounds

\* Longest generated fallback value text (SpecInfer).
MaxLen == 3
\* Longest generated catalog (SpecGroup, SpecRegroup).
MaxParams == 4
\* Most invocations of group_parameters on one Launch object (SpecRegroup).
MaxCalls == 2
\* Most rejected inputs (click or validate) in one session (Spec).
MaxRetries == 2

\* -------------------------------------------------------------------- text

Digits == {"0", "1", "2", "3", "4", "5", "6", "7", "8", "9"}

Whitespace == {" "}

DigitVal(c) ==
    CASE c = "0" -> 0 [] c = "1" -> 1 [] c = "2" -> 2 [] c = "3" -> 3
      [] c = "4" -> 4 [] c = "5" -> 5 [] c = "6" -> 6 [] c = "7" -> 7
      [] c = "8" -> 8 [] c = "9" -> 9

\* chr.lower() on the letters the model's texts use; other characters are
\* their own lower case.
LowerChar(c) ==
    CASE c = "T" -> "t" [] c = "R" -> "r" [] c = "U" -> "u" [] c = "E" -> "e"
      [] c = "F" -> "f" [] c = "A" -> "a" [] c = "L" -> "l" [] c = "S" -> "s"
      [] c = "I" -> "i" [] c = "N" -> "n" [] c = "Y" -> "y" [] c = "O" -> "o"
      [] OTHER -> c

Lower(t) == [i \in 1..Len(t) |-> LowerChar(t[i])]

\* t[from:] and t[:to] of Python, 1-based inclusive here.
Slice(t, from, to) == [i \in 1..(IF to >= from THEN to - from + 1 ELSE 0) |-> t[from + i - 1]]

\* Index of the first character of t at or after i not in chars (Len(t)+1 if none).
RECURSIVE SkipFwd(_, _, _)
SkipFwd(t, i, chars) ==
    IF i > Len(t) \/ t[i] \notin chars THEN i ELSE SkipFwd(t, i + 1, chars)

\* Index of the last character of t at or before i not in chars (0 if none).
RECURSIVE SkipBack(_, _, _)
SkipBack(t, i, chars) ==
    IF i < 1 \/ t[i] \notin chars THEN i ELSE SkipBack(t, i - 1, chars)

\* str.strip(chars): removes every leading and trailing character in chars.
Strip(t, chars) ==
    LET a == SkipFwd(t, 1, chars)
        b == SkipBack(t, Len(t), chars)
    IN  IF a > b THEN << >> ELSE Slice(t, a, b)

\* str.isdigit(): non-empty and every character a decimal digit.
IsDigit(t) == Len(t) > 0 /\ \A i \in 1..Len(t) : t[i] \in Digits

\* The number a digit string denotes (leading zeros do not matter).
RECURSIVE DigitsVal(_)
DigitsVal(t) ==
    IF Len(t) = 0 THEN 0
    ELSE 10 * DigitsVal(Slice(t, 1, Len(t) - 1)) + DigitVal(t[Len(t)])

RECURSIVE Pow10(_)
Pow10(k) == IF k = 0 THEN 1 ELSE 10 * Pow10(k - 1)

\* str.split('.'): the pieces between the dots, empty pieces kept.
RECURSIVE SplitDot(_)
SplitDot(t) ==
    LET d == SkipFwd(t, 1, {c \in {t[i] : i \in 1..Len(t)} : c # "."})
    IN  IF d > Len(t) THEN << t >>
        ELSE << Slice(t, 1, d - 1) >> \o SplitDot(Slice(t, d + 1, Len(t)))

\* ------------------------------------------------------------ Python values

PyNone == [ty |-> "NoneType", n |-> 0, e |-> 0, s |-> << >>]
PyBool(b) == [ty |-> "bool", n |-> IF b THEN 1 ELSE 0, e |-> 0, s |-> << >>]
PyInt(i) == [ty |-> "int", n |-> i, e |-> 0, s |-> << >>]
PyStr(t) == [ty |-> "str", n |-> 0, e |-> 0, s |-> t]

RECURSIVE NormFloat(_, _)
NormFloat(m, e) ==
    IF m = 0 THEN << 0, 0 >>
    ELSE IF m % 10 = 0 THEN NormFloat(m \div 10, e + 1)
    ELSE << m, e >>

\* The float m * 10^e, in normal form (no trailing zero in m); the two zeros
\* of Python compare equal and are one value here.
PyFloat(m, e) ==
    [ty |-> "float", n |-> NormFloat(m, e)[1], e |-> NormFloat(m, e)[2], s |-> << >>]

\* inf, -inf (n the sign) and nan.
PyFloatSpecial(name, sign) == [ty |-> "float", n |-> sign, e |-> 0, s |-> name]

InfText == << "i", "n", "f" >>
InfinityText == << "i", "n", "f", "i", "n", "i", "t", "y" >>
NanText == << "n", "a", "n" >>
TrueText == << "t", "r", "u", "e" >>
FalseText == << "f", "a", "l", "s", "e" >>

ValueError == [ok |-> FALSE, v |-> PyNone]
Parsed(v) == [ok |-> TRUE, v |-> v]

\* int(text): optional whitespace around an optional sign and digits.
\* ok = FALSE stands for ValueError.
IntUnsigned(body, sign) ==
    IF IsDigit(body) THEN Parsed(PyInt(sign * DigitsVal(body))) ELSE ValueError

IntStripped(u) ==
    IF Len(u) > 0 /\ u[1] \in {"+", "-"}
    THEN IntUnsigned(Slice(u, 2, Len(u)), IF u[1] = "-" THEN 0 - 1 ELSE 1)
    ELSE IntUnsigned(u, 1)

ParseInt(t) == IntStripped(Strip(t, Whitespace))

\* float(text): whitespace, sign, then inf/infinity/nan in any case or
\*   digits [. [digits]] | . digits, then an optional exponent e [sign] digits.
\* ok = FALSE stands for ValueError.
FloatExponent(m, nfrac, ex, esign) ==
    IF IsDigit(ex) THEN Parsed(PyFloat(m, esign * DigitsVal(ex) - nfrac)) ELSE ValueError

FloatTail(m, nfrac, tail) ==
    IF Len(tail) = 0 THEN Parsed(PyFloat(m, 0 - nfrac))
    ELSE IF tail[1] \notin {"e", "E"} THEN ValueError
    ELSE IF Len(tail) > 1 /\ tail[2] \in {"+", "-"}
    THEN FloatExponent(m, nfrac, Slice(tail, 3, Len(tail)), IF tail[2] = "-" THEN 0 - 1 ELSE 1)
    ELSE FloatExponent(m, nfrac, Slice(tail, 2, Len(tail)), 1)

FloatMantissa(sign, intPart, fracPart, tail) ==
    IF Len(intPart) + Len(fracPart) = 0 THEN ValueError
    ELSE FloatTail(sign * DigitsVal(intPart \o fracPart), Len(fracPart), tail)

FloatFraction(sign, intPart, rest, fEnd) ==
    FloatMantissa(sign, intPart, Slice(rest, 1, fEnd - 1), Slice(rest, fEnd, Len(rest)))

FloatDigits(sign, body, iEnd) ==
    IF iEnd <= Len(body) /\ body[iEnd] = "."
    THEN FloatFraction(sign, Slice(body, 1, iEnd - 1), Slice(body, iEnd + 1, Len(body)),
                       SkipFwd(Slice(body, iEnd + 1, Len(body)), 1, Digits))
    ELSE FloatMantissa(sign, Slice(body, 1, iEnd - 1), << >>, Slice(body, iEnd, Len(body)))

FloatUnsigned(sign, body, low) ==
    IF low = InfText \/ low = InfinityText THEN Parsed(PyFloatSpecial(InfText, sign))
    ELSE IF low = NanText THEN Parsed(PyFloatSpecial(NanText, 1))
    ELSE FloatDigits(sign, body, SkipFwd(body, 1, Digits))

FloatStripped(u) ==
    IF Len(u) > 0 /\ u[1] \in {"+", "-"}
    THEN FloatUnsigned(IF u[1] = "-" THEN 0 - 1 ELSE 1, Slice(u, 2, Len(u)),
                       Lower(Slice(u, 2, Len(u))))
    ELSE FloatUnsigned(1, u, Lower(u))

ParseFloat(t) == FloatStripped(Strip(t, Whitespace))

\* ---------------------------------------------------------------- Parameter

ParamsText == << "p", "a", "r", "a", "m", "s" >>

NoChoices == [kind |-> "none", set |-> {}, lo |-> 0, hi |-> 0]

\* nf_core.workflow.parameters.Parameter as Parameter.builder()...build()
\* leaves it: the current value starts as the default.  label, usage, render
\* and arity only decorate the prompt text and are left out.
Parameter(p_name, p_type, p_choices, p_default, p_pattern, p_group) ==
    [name |-> p_name, type |-> p_type, choices |-> p_choices,
     default_value |-> p_default, value |-> p_default,
     pattern |-> p_pattern, group |-> p_group]

\* ------------------------------------- collect_pipeline_param_defaults

\* keys[0] == 'params' and len(keys) == 2, with the short circuit of "and".
KeepKey_AtLeastTwo(keys) == keys[1] = ParamsText /\ Len(keys) >= 2

KeepKey(keys) == keys[1] = ParamsText /\ Len(keys) = 2

\* The guess of a parameter's type and default from its configured text.
InferParam_LowerBool(value) ==
    LET guess == IF IsDigit(value)
                 THEN [type |-> "integer", default |-> ParseInt(value).v]
                 ELSE IF ParseFloat(value).ok
                 THEN [type |-> "decimal", default |-> ParseFloat(value).v]
                 ELSE [type |-> "string", default |-> PyStr(value)]
    IN  IF Lower(value) = TrueText \/ Lower(value) = FalseText
        THEN [type |-> "boolean", default |-> PyBool(Lower(value) = TrueText)]
        ELSE guess

InferParam_FloatFirst(value) ==
    LET guess == IF ParseFloat(value).ok
                 THEN [type |-> "decimal", default |-> ParseFloat(value).v]
                 ELSE IF IsDigit(value)
                 THEN [type |-> "integer", default |-> ParseInt(value).v]
                 ELSE [type |-> "string", default |-> PyStr(value)]
    IN  IF value = TrueText \/ value = FalseText
        THEN [type |-> "boolean", default |-> PyBool(value = TrueText)]
        ELSE guess

InferParam_NoFloat(value) ==
    LET guess == IF IsDigit(value)
                 THEN [type |-> "integer", default |-> ParseInt(value).v]
                 ELSE [type |-> "string", default |-> PyStr(value)]
    IN  IF value = TrueText \/ value = FalseText
        THEN [type |-> "boolean", default |-> PyBool(value = TrueText)]
        ELSE guess

InferParam(value) ==
    LET guess == IF IsDigit(value)
                 THEN [type |-> "integer", default |-> ParseInt(value).v]
                 ELSE IF ParseFloat(value).ok
                 THEN [type |-> "decimal", default |-> ParseFloat(value).v]
                 ELSE [type |-> "string", default |-> PyStr(value)]
    IN  IF value = TrueText \/ value = FalseText
        THEN [type |-> "boolean", default |-> PyBool(value = TrueText)]
        ELSE guess

\* The loop over config.items(): one Parameter appended per kept key.
RECURSIVE CollectParams(_, _)
CollectParams(items, params) ==
    IF Len(items) = 0 THEN params
    ELSE LET keys == SplitDot(Head(items).k)
             inferred == InferParam(Head(items).v)
             parameter == Parameter(keys[2], inferred.type, NoChoices,
                                    inferred.default, ".*", "Pipeline parameters")
         IN  CollectParams(Tail(items),
                           IF KeepKey(keys) THEN Append(params, parameter) ELSE params)


\* -------------------------------------------------------------------- state

VARIABLES
    pc,                 \* the call launch_pipeline makes next, or the prompt the session is at
    local_wf,           \* self.local_wf is set (a cached copy is known)
    nxf_flag_defaults,  \* self.nxf_flag_defaults: [k: flag, v: default], in order
    parameters,         \* self.parameters: the catalog, a sequence of Parameter
    grouped_parameters, \* self.grouped_parameters: [k: group label, v: catalog positions]
    nxf_flags,          \* self.nxf_flags: [k: flag, v: value], in insertion order
    params_user,        \* self.params_user: [k: name, v: value]
    direct,             \* launch_pipeline's argument
    schema,             \* what parse_parameter_settings finds: [uri, file, params]
    config,             \* what fetch_wf_config returns: [ok, items: [k, v] in order]
    flag_i,             \* position in nxf_flag_defaults.items()
    group_i,            \* position in grouped_parameters.items()
    param_i,            \* position in the group's params
    entered,            \* the line the operator typed at each run flag's prompt
    shown,              \* the last thing the console showed
    retries,            \* rejected inputs so far
    calls,              \* invocations of group_parameters so far
    engine,             \* the nextflow executable can be started
    cwd,                \* os.getcwd() when build_command runs
    use_params_file,    \* self.use_params_file
    last,               \* the line the operator typed last, at any prompt
    nextflow_cmd,       \* self.nextflow_cmd
    files,              \* the output files: [k: path, v: content], as written
    displayed,          \* the command texts launch_workflow has displayed
    executed,           \* the command texts handed to subprocess.call
    warnings,           \* the messages logged by build_command
    chosen,             \* the grouping positions of the groups the operator chose to change
    accepted,           \* the catalog positions of the accepted parameter inputs, in order
    workflow,           \* the workflow name: as given, then self.workflow
    is_path             \* os.path.exists(workflow) of the name as given

vars == << pc, local_wf, nxf_flag_defaults, parameters, grouped_parameters,
           nxf_flags, params_user, direct, schema, config, flag_i, group_i,
           param_i, entered, shown, retries, calls, engine, cwd, use_params_file,
           last, nextflow_cmd, files, displayed, executed, warnings, chosen, accepted,
           workflow, is_path >>

\* What the session is given and never changes.
given == << nxf_flag_defaults, direct, schema, config, engine, cwd, use_params_file,
           workflow, is_path >>
\* Where the session is.
position == << flag_i, group_i, param_i, chosen, accepted >>
\* What the operator typed and saw.
console == << entered, shown, retries, last >>
\* What build_command and launch_workflow produce.
output == << nextflow_cmd, files, displayed, executed, warnings >>

\* The workflow launch_pipeline is given, a local directory, and the command
\* __init__ starts from.
WorkflowText == << "w", "f" >>
BaseCmd == << "n", "e", "x", "t", "f", "l", "o", "w", " ", "r", "u", "n", " " >> \o WorkflowText

\* The working directory of the process.
CwdText == << "/", "d" >>

StandardText == << "s", "t", "a", "n", "d", "a", "r", "d" >>
WorkText == << ".", "/", "w", "o", "r", "k" >>

\* self.nxf_flag_defaults of Launch.__init__; nxf_work is os.getenv('NXF_WORK'),
\* the empty text when it is unset or empty.
FlagDefaults(nxf_work) ==
    << [k |-> "-name", v |-> PyNone],
       [k |-> "-r", v |-> PyNone],
       [k |-> "-profile", v |-> PyStr(StandardText)],
       [k |-> "-w", v |-> PyStr(IF nxf_work # << >> THEN nxf_work ELSE WorkText)],
       [k |-> "-resume", v |-> PyBool(FALSE)] >>

\* Launch.__init__: the fields it sets other than the catalog, and the
\* session not begun.
NothingCollected ==
    /\ grouped_parameters = << >>
    /\ nxf_flags = << >>
    /\ params_user = << >>
    /\ flag_i = 1
    /\ group_i = 1
    /\ param_i = 1
    /\ entered = << >>
    /\ shown = "nothing"
    /\ retries = 0
    /\ calls = 0
    /\ last = << >>
    /\ nextflow_cmd = BaseCmd
    /\ files = << >>
    /\ displayed = << >>
    /\ executed = << >>
    /\ warnings = << >>
    /\ chosen = << >>
    /\ accepted = << >>
    /\ workflow = WorkflowText
    /\ is_path = TRUE

\* Launch.__init__.
Constructed == NothingCollected /\ parameters = << >> /\ use_params_file = TRUE

NoSchema == [uri |-> FALSE, file |-> "missing", params |-> << >>]
FetchFailure == [ok |-> FALSE, items |-> << >>]
Config(items) == [ok |-> TRUE, items |-> items]

\* The fallback with the params file written before the configuration is fetched.
CollectPipelineParamDefaults_FileFirst ==
    /\ pc = "collect_pipeline_param_defaults"
    /\ files' = Append(files, [k |-> cwd, v |-> << >>])
    /\ parameters' = IF config.ok THEN CollectParams(config.items, parameters) ELSE parameters
    /\ pc' = IF config.ok THEN "group_parameters" ELSE "aborted"
    /\ UNCHANGED << local_wf, grouped_parameters, nxf_flags, params_user, calls,
                    given, position, console, nextflow_cmd, displayed, executed, warnings >>

\* launch_pipeline, lines 26-27 and the body of collect_pipeline_param_defaults.
\* fetch_wf_config failing ends the session.
CollectPipelineParamDefaults ==
    /\ pc = "collect_pipeline_param_defaults"
    /\ \/ /\ config.ok
          /\ parameters' = CollectParams(config.items, parameters)
          /\ pc' = "group_parameters"
       \/ /\ ~config.ok
          /\ parameters' = parameters
          /\ pc' = "aborted"
    /\ UNCHANGED << local_wf, grouped_parameters, nxf_flags, params_user, calls,
                    given, position, console, output >>

\* ------------------------------------------------- inputs of the inference

InferChars == {"0", "7", ".", "-", "e", " ", "x"}

GenTexts == UNION {[1..n -> InferChars] : n \in 0..MaxLen}

LiteralTexts ==
    { TrueText, FalseText,
      << "T", "r", "u", "e" >>, << "F", "A", "L", "S", "E" >>, << "t", "r", "u", "E" >>,
      << "i", "n", "f" >>, << "-", "I", "n", "f" >>, << "n", "a", "n" >>,
      << "0", "0", "4", "2" >>, << "-", "1", ".", "5", "e", "-", "2" >>,
      << "+", "7" >>, << "7", "E", "1" >> }

SmallTexts == { TrueText, << "0", "7" >>, << "x" >> }

KeyA == ParamsText \o << ".", "a" >>
KeyB == ParamsText \o << ".", "b" >>
KeySaveAll == ParamsText \o << ".", "s", "a", "v", "e", "_", "a", "l", "l" >>

InferKeys ==
    { KeyA, KeyB, KeySaveAll,
      ParamsText,                                   \* params
      ParamsText \o << "." >>,                      \* params.
      ParamsText \o << ".", "a", ".", "b" >>,       \* params.a.b
      << "e", "n", "v", ".", "a" >>,                \* env.a
      << "P", "a", "r", "a", "m", "s", ".", "a" >>, \* Params.a
      << ".", "a" >>,                               \* .a
      << "a", "." >> \o ParamsText }                \* a.params

InferConfigs ==
    { Config(<< [k |-> KeyA, v |-> t] >>) : t \in GenTexts \cup LiteralTexts }
    \cup { Config(<< [k |-> key, v |-> t] >>) : key \in InferKeys, t \in SmallTexts }
    \cup { Config(<< [k |-> k1, v |-> t1], [k |-> k2, v |-> t2] >>) :
             k1 \in InferKeys, k2 \in {KeyA, ParamsText \o << ".", "a", ".", "b" >>},
             t1 \in SmallTexts, t2 \in {FalseText, << "." , "7" >>} }
    \cup { Config(<< >>), FetchFailure }

InitInfer ==
    /\ Constructed
    /\ engine = TRUE
    /\ cwd = CwdText
    /\ nxf_flag_defaults = FlagDefaults(<< >>)
    /\ pc = "collect_pipeline_param_defaults"
    /\ local_wf = TRUE
    /\ direct = FALSE
    /\ schema = NoSchema
    /\ config \in {c \in InferConfigs :
                     \A i, j \in 1..Len(c.items) : c.items[i].k = c.items[j].k => i = j}

\* collect_pipeline_param_defaults applied to the configurations of InferConfigs.
SpecInfer == InitInfer /\ [][CollectPipelineParamDefaults]_vars


\* ------------------------------------ properties of the fallback inference

\* The fallback step of launch_pipeline has run.
Collected == pc = "group_parameters"

DotCount(key) == Cardinality({i \in 1..Len(key) : key[i] = "."})

\* A key of the shape params.<name>: one dot, and "params" before it.
IsParamsKey(key) ==
    /\ DotCount(key) = 1
    /\ Len(key) >= Len(ParamsText) + 1
    /\ \A i \in 1..Len(ParamsText) : key[i] = ParamsText[i]
    /\ key[Len(ParamsText) + 1] = "."

NameOf(key) == [i \in 1..(Len(key) - Len(ParamsText) - 1) |-> key[Len(ParamsText) + 1 + i]]

KeptItem(item) == IsParamsKey(item.k)

KeptItems == SelectSeq(config.items, KeptItem)

AllDecimalDigits(t) == t # << >> /\ {t[i] : i \in 1..Len(t)} \subseteq Digits

RECURSIVE NumeralSum(_, _)
NumeralSum(t, i) ==
    IF i > Len(t) THEN 0 ELSE DigitVal(t[i]) * Pow10(Len(t) - i) + NumeralSum(t, i + 1)

OtherCasing(t) == Lower(t) \in {TrueText, FalseText} /\ t \notin {TrueText, FalseText}

SaveAllText == << "s", "a", "v", "e", "_", "a", "l", "l" >>

ScenarioB == config = Config(<< [k |-> KeySaveAll, v |-> TrueText] >>)

\* C5: a fallback value that is exactly 'true' or 'false' yields a boolean
\* parameter with default True or False; any other casing of these words is
\* not classified as boolean; and the fallback map {params.save_all: 'true'}
\* yields a catalog of exactly one boolean parameter save_all, default true.
InferTrueFalseIsBoolean ==
    Collected =>
      /\ \A j \in 1..Len(KeptItems) :
           /\ KeptItems[j].v = TrueText =>
                parameters[j].type = "boolean" /\ parameters[j].default_value = PyBool(TRUE)
           /\ KeptItems[j].v = FalseText =>
                parameters[j].type = "boolean" /\ parameters[j].default_value = PyBool(FALSE)
           /\ OtherCasing(KeptItems[j].v) => parameters[j].type # "boolean"
      /\ ScenarioB =>
           /\ Len(parameters) = 1
           /\ parameters[1].name = SaveAllText
           /\ parameters[1].type = "boolean"
           /\ parameters[1].default_value = PyBool(TRUE)

InferTrueFalseIsBooleanWitness ==
    /\ Collected
    /\ ScenarioB
    /\ Len(parameters) = 1
    /\ parameters[1].type = "boolean"

\* C6: a kept fallback value made only of decimal digits yields an integer
\* parameter whose default is the integer of that numeric value, leading
\* zeros or not.
InferDigitsIsInteger ==
    Collected =>
      \A j \in 1..Len(KeptItems) :
        AllDecimalDigits(KeptItems[j].v) =>
          /\ parameters[j].type = "integer"
          /\ parameters[j].default_value = PyInt(NumeralSum(KeptItems[j].v, 1))

InferDigitsIsIntegerWitness ==
    /\ Collected
    /\ Len(KeptItems) = 1
    /\ KeptItems[1].v = << "0", "0", "4", "2" >>
    /\ parameters[1].default_value = PyInt(42)

\* C7: a kept fallback value that float() accepts and that is not all digits
\* yields a decimal parameter; a value that is neither all digits, nor
\* accepted by float(), nor exactly 'true'/'false' yields a string parameter
\* whose default is the raw text.
InferFloatIsDecimalElseString ==
    Collected =>
      \A j \in 1..Len(KeptItems) :
        /\ (ParseFloat(KeptItems[j].v).ok /\ ~AllDecimalDigits(KeptItems[j].v)) =>
             parameters[j].type = "decimal"
        /\ ( /\ ~ParseFloat(KeptItems[j].v).ok
             /\ ~AllDecimalDigits(KeptItems[j].v)
             /\ KeptItems[j].v \notin {TrueText, FalseText} ) =>
             /\ parameters[j].type = "string"
             /\ parameters[j].default_value = PyStr(KeptItems[j].v)

InferFloatIsDecimalElseStringWitness ==
    /\ Collected
    /\ Len(KeptItems) = 1
    /\ KeptItems[1].v = << "-", "1", ".", "5", "e", "-", "2" >>
    /\ parameters[1].type = "decimal"
    /\ parameters[1].default_value = PyFloat(0 - 15, 0 - 3)

\* C8: a parameter is added for a fallback key exactly when the key is
\* params.<name> (two components, the first 'params'); every such key adds
\* one parameter, named by its second component, in the order of the map.
FallbackKeepsOnlyParamsKeys ==
    Collected =>
      /\ Len(parameters) = Len(KeptItems)
      /\ \A j \in 1..Len(KeptItems) : parameters[j].name = NameOf(KeptItems[j].k)

FallbackKeepsOnlyParamsKeysWitness ==
    /\ Collected
    /\ Len(config.items) = 2
    /\ config.items[1].k = ParamsText \o << ".", "a", ".", "b" >>
    /\ config.items[2].k = KeyA
    /\ Len(parameters) = 1
    /\ parameters[1].name = << "a" >>


\* ----------------------------------------------------------- dictionaries

HasKey(d, key) == \E j \in 1..Len(d) : d[j].k = key

\* d[key] = value: the key keeps its place if present, else goes last.
SetItem(d, key, value) ==
    IF HasKey(d, key)
    THEN [j \in 1..Len(d) |-> IF d[j].k = key THEN [k |-> key, v |-> value] ELSE d[j]]
    ELSE Append(d, [k |-> key, v |-> value])

GetItem(d, key) == d[CHOOSE j \in 1..Len(d) : d[j].k = key].v

\* --------------------------------------------------------- group_parameters

\* One pass of the loop body for the parameter at catalog position i: the
\* group's list is created if its label is new, and the parameter appended.
GroupStep_AlwaysReset(grouped, label, i) == SetItem(grouped, label, << i >>)

GroupStep(grouped, label, i) ==
    IF HasKey(grouped, label)
    THEN SetItem(grouped, label, Append(GetItem(grouped, label), i))
    ELSE SetItem(grouped, label, << i >>)

\* The loop over self.parameters, from position i on.  A group holds
\* the catalog positions of its parameters: the lists refer to the catalog's
\* own Parameter objects.
RECURSIVE GroupParams(_, _, _)
GroupParams(params, i, grouped) ==
    IF i > Len(params) THEN grouped
    ELSE GroupParams(params, i + 1, GroupStep(grouped, params[i].group, i))

\* launch_pipeline, line 30.
GroupParameters ==
    /\ pc = "group_parameters"
    /\ grouped_parameters' = GroupParams(parameters, 1, grouped_parameters)
    /\ calls' = calls + 1
    /\ pc' = "prompt_core_nxf_flags"
    /\ UNCHANGED << local_wf, parameters, nxf_flags, params_user,
                    given, position, console, output >>

\* A further call of launcher.group_parameters() on the same object.
Regroup ==
    /\ calls >= 1
    /\ calls < MaxCalls
    /\ grouped_parameters' = GroupParams(parameters, 1, grouped_parameters)
    /\ calls' = calls + 1
    /\ UNCHANGED << pc, local_wf, parameters, nxf_flags, params_user,
                    given, position, console, output >>

\* ---------------------------------------------------- inputs of the grouping

GroupLabels == {"Pipeline parameters", "Input", "Output"}

ParamNames == << << "p", "1" >>, << "p", "2" >>, << "p", "3" >>, << "p", "4" >>,
                 << "p", "5" >>, << "p", "6" >> >>

\* Catalogs of up to MaxParams string parameters p1, p2, ... in any groups.
GenCatalogs ==
    UNION { { [i \in 1..n |-> Parameter(ParamNames[i], "string", NoChoices,
                                        PyStr(<< "x" >>), ".*", labels[i])] :
              labels \in [1..n -> GroupLabels] } : n \in 0..MaxParams }

InitGroup ==
    /\ NothingCollected
    /\ use_params_file = TRUE
    /\ engine = TRUE
    /\ cwd = CwdText
    /\ nxf_flag_defaults = FlagDefaults(<< >>)
    /\ pc = "group_parameters"
    /\ local_wf = TRUE
    /\ direct = FALSE
    /\ schema = NoSchema
    /\ config = Config(<< >>)
    /\ parameters \in GenCatalogs

\* group_parameters applied once to a freshly constructed Launch, as
\* launch_pipeline does, over the catalogs of GenCatalogs.
SpecGroup == InitGroup /\ [][GroupParameters]_vars

\* group_parameters applied up to MaxCalls times to the same Launch.
SpecRegroup == InitGroup /\ [][GroupParameters \/ Regroup]_vars

\* ---------------------------------------------- properties of the grouping

Grouped == pc = "prompt_core_nxf_flags"

\* The places (group, position in the group) where catalog position i is listed.
PlacesOf(i) ==
    { << g, j >> \in (1..Len(grouped_parameters)) \X (1..Len(parameters) * MaxCalls) :
        j <= Len(grouped_parameters[g].v) /\ grouped_parameters[g].v[j] = i }

\* C9: after group_parameters the grouping is an order-preserving partition
\* of the catalog: each parameter is listed once, in the group keyed by its
\* label; each group lists its parameters in catalog order; the groups come
\* in the order of their first members.
GroupingIsOrderedPartition ==
    Grouped =>
      /\ \A i \in 1..Len(parameters) :
           /\ Cardinality(PlacesOf(i)) = 1
           /\ \A pl \in PlacesOf(i) : grouped_parameters[pl[1]].k = parameters[i].group
      /\ \A g \in 1..Len(grouped_parameters) :
           /\ Len(grouped_parameters[g].v) >= 1
           /\ \A j \in 1..Len(grouped_parameters[g].v) :
                grouped_parameters[g].v[j] \in 1..Len(parameters)
           /\ \A j, l \in 1..Len(grouped_parameters[g].v) :
                j < l => grouped_parameters[g].v[j] < grouped_parameters[g].v[l]
      /\ \A g, h \in 1..Len(grouped_parameters) :
           g < h => /\ grouped_parameters[g].k # grouped_parameters[h].k
                    /\ grouped_parameters[g].v[1] < grouped_parameters[h].v[1]

GroupingIsOrderedPartitionWitness ==
    /\ Grouped
    /\ Len(parameters) = 4
    /\ parameters[1].group = "Output"
    /\ grouped_parameters = << [k |-> "Output", v |-> << 1, 3 >>],
                               [k |-> "Input", v |-> << 2, 4 >>] >>

\* C10: however often group_parameters has been invoked on a Launch object,
\* the grouping is that of a single invocation, no parameter listed twice.
GroupingIdempotent ==
    calls >= 1 =>
      /\ grouped_parameters = GroupParams(parameters, 1, << >>)
      /\ \A i \in 1..Len(parameters) : Cardinality(PlacesOf(i)) = 1


\* --------------------------------------------------------------------- click

\* a == b of Python: numbers (bool, int, float) by value, nan equal to
\* nothing; texts by their characters; None to None; otherwise unequal.
PyEq(a, b) ==
    IF a.ty \in {"bool", "int", "float"} /\ b.ty \in {"bool", "int", "float"}
    THEN /\ a.s # NanText
         /\ a.s = b.s
         /\ IF a.s = << >> THEN NormFloat(a.n, a.e) = NormFloat(b.n, b.e) ELSE a.n = b.n
    ELSE a.ty = b.ty /\ a.s = b.s

Rejected == [ok |-> FALSE, v |-> PyNone]

ClickTrueWords ==
    { TrueText, << "t" >>, << "1" >>, << "y", "e", "s" >>, << "y" >>, << "o", "n" >> }
ClickFalseWords ==
    { FalseText, << "f" >>, << "0" >>, << "n", "o" >>, << "n" >>, << "o", "f", "f" >> }

\* The conversion click.prompt chooses from the type of its default.
ClickConvert(default, line) ==
    CASE default.ty = "bool" ->
           IF Lower(Strip(line, Whitespace)) \in ClickTrueWords THEN Parsed(PyBool(TRUE))
           ELSE IF Lower(Strip(line, Whitespace)) \in ClickFalseWords THEN Parsed(PyBool(FALSE))
           ELSE Rejected
      [] default.ty = "int" -> ParseInt(line)
      [] default.ty = "float" -> ParseFloat(line)
      [] OTHER -> Parsed(PyStr(line))

\* click.prompt(text, default=default) on one typed line: the default on an
\* empty line, else the converted line; ok = FALSE when click itself asks
\* again (a line it cannot convert, or an empty line with no default).
ClickPrompt(default, line) ==
    IF line = << >>
    THEN IF default.ty = "NoneType" THEN Rejected ELSE Parsed(default)
    ELSE ClickConvert(default, line)

\* click.confirm(text, default=default) on one typed line.
ClickConfirm(default, line) ==
    LET word == Lower(Strip(line, Whitespace))
    IN  IF word \in { << "y" >>, << "y", "e", "s" >> } THEN Parsed(PyBool(TRUE))
        ELSE IF word \in { << "n" >>, << "n", "o" >> } THEN Parsed(PyBool(FALSE))
        ELSE IF word = << >> THEN Parsed(default)
        ELSE Rejected

\* ---------------------------------------------------- prompt_core_nxf_flags

\* Lines 174-176: the default handed to click, '' standing in for None.
PromptDefault(f_default) == IF f_default.ty = "NoneType" THEN PyStr(<< >>) ELSE f_default

\* Lines 196-201: quotes stripped and the words true/false, in any case,
\* made booleans; a value that is no text (AttributeError) is left as it is.
NormalizeFlag(f_user) ==
    IF f_user.ty # "str" THEN f_user
    ELSE LET t == Strip(Strip(f_user.s, {"\""}), {"'"})
         IN  IF Lower(t) = TrueText THEN PyBool(TRUE)
             ELSE IF Lower(t) = FalseText THEN PyBool(FALSE)
             ELSE PyStr(t)

\* Lines 193-202 with the flag saved whatever was typed.
SaveFlag_Always(flags, flag, f_default, f_user) == SetItem(flags, flag, NormalizeFlag(f_user))

\* Lines 193-202: the flag is saved when what click returned differs from the
\* default handed to click, and it is saved normalised.
SaveFlag(flags, flag, f_default, f_user) ==
    IF ~PyEq(f_user, f_default)
    THEN SetItem(flags, flag, NormalizeFlag(f_user))
    ELSE flags

\* Lines 34-38 with prompt_param_flags called whatever `direct` says.
AfterFlags_IgnoreDirect ==
    IF Len(grouped_parameters) = 0 THEN "build_command" ELSE "AskGroupOverride"

\* What launch_pipeline does after prompt_core_nxf_flags (lines 34-38, 220).
AfterFlags == IF direct \/ Len(grouped_parameters) = 0 THEN "build_command" ELSE "AskGroupOverride"

\* One pass of the loop of prompt_core_nxf_flags: the operator types one of
\* Lines(default) at the prompt of the flag at flag_i.
AskRunFlag(Lines) ==
    /\ pc = "prompt_core_nxf_flags"
    /\ \E line \in Lines[PromptDefault(nxf_flag_defaults[flag_i].v)] :
         /\ last' = line
         /\ LET f_default == PromptDefault(nxf_flag_defaults[flag_i].v)
                answer == ClickPrompt(f_default, line)
            IN  \/ /\ answer.ok
                   /\ nxf_flags' = SaveFlag(nxf_flags, nxf_flag_defaults[flag_i].k,
                                            f_default, answer.v)
                   /\ entered' = Append(entered, line)
                   /\ shown' = "prompt"
                   /\ flag_i' = flag_i + 1
                   /\ pc' = IF flag_i = Len(nxf_flag_defaults) THEN AfterFlags ELSE pc
                   /\ UNCHANGED retries
                \/ /\ ~answer.ok
                   /\ retries < MaxRetries
                   /\ retries' = retries + 1
                   /\ shown' = "click error"
                   /\ UNCHANGED << pc, nxf_flags, entered, flag_i >>
    /\ UNCHANGED << local_wf, parameters, grouped_parameters, params_user, calls,
                    given, group_i, param_i, chosen, accepted, output >>

\* ------------------------------------------------ inputs of the flag prompts

Quoted(t) == << "\"" >> \o t \o << "\"" >>
SingleQuoted(t) == << "'" >> \o t \o << "'" >>

NxfWorkValues == { << >>, << "/", "w" >> }

\* The defaults prompt_core_nxf_flags hands to click.
PromptDefaults ==
    UNION { { PromptDefault(FlagDefaults(nxf_work)[i].v) : i \in DOMAIN FlagDefaults(nxf_work) } :
            nxf_work \in NxfWorkValues }

\* What the operator may type at a flag's prompt in SpecFlags.
FlagLines == [f_default \in PromptDefaults |->
    IF f_default.ty = "bool"
    THEN { << >>, << "y" >>, << "N", "o" >>, << "t", "r", "u", "e" >>, << "x" >> }
    ELSE { << >>, << "x" >>, f_default.s, Quoted(f_default.s), SingleQuoted(f_default.s),
           TrueText, Quoted(<< "F", "a", "l", "s", "e" >>) }]

InitFlags ==
    /\ Constructed
    /\ engine = TRUE
    /\ cwd = CwdText
    /\ pc = "prompt_core_nxf_flags"
    /\ local_wf = TRUE
    /\ direct = TRUE
    /\ schema = NoSchema
    /\ config = Config(<< >>)
    /\ \E nxf_work \in NxfWorkValues : nxf_flag_defaults = FlagDefaults(nxf_work)

AskRunFlagAny == AskRunFlag(FlagLines)

\* prompt_core_nxf_flags on a freshly constructed Launch, for the lines of FlagLines.
SpecFlags == InitFlags /\ [][AskRunFlagAny]_vars

\* --------------------------------------------- properties of the run flags

\* The flag at position i has been answered.
Answered(i) == i <= Len(entered)

\* What click returned for the line typed at flag i.
Returned(i) == ClickPrompt(PromptDefault(nxf_flag_defaults[i].v), entered[i]).v

\* C2: the decision to record a run flag is made on the normalized input: a
\* line whose normalized form (quotes stripped, true/false made boolean)
\* equals the flag's default is discarded and leaves no entry in nxf_flags.
NormalizedDefaultIsDiscarded ==
    \A i \in 1..Len(nxf_flag_defaults) :
      ( /\ Answered(i)
        /\ PyEq(NormalizeFlag(Returned(i)), nxf_flag_defaults[i].v) )
      => ~HasKey(nxf_flags, nxf_flag_defaults[i].k)


\* ----------------------------------------------------- get_local_wf, parsing

\* launch_pipeline, line 20.  With no cached copy `nextflow pull` runs: it
\* succeeds, or exits non-zero (CalledProcessError, re-raised as
\* AssertionError), or cannot be started (OSError: the handler's os.errno
\* does not exist in Python 3.7 and later, so it raises for every errno).
\* ENOENT is the error of an executable that is not there.
PullOutcomes == {"pulled", "CalledProcessError", "ENOENT", "EACCES"}

GetLocalWf ==
    /\ pc = "get_local_wf"
    /\ \/ /\ local_wf
          /\ pc' = "parse_parameter_settings"
          /\ UNCHANGED local_wf
       \/ /\ ~local_wf
          /\ \E outcome \in PullOutcomes :
               /\ engine <=> outcome # "ENOENT"
               /\ IF outcome = "pulled"
                  THEN local_wf' = TRUE /\ pc' = "parse_parameter_settings"
                  ELSE local_wf' = FALSE /\ pc' = "aborted"
    /\ UNCHANGED << parameters, grouped_parameters, nxf_flags, params_user, calls,
                    given, position, console, output >>

\* Line 26 with the fallback consulted whatever the schema gave.
AfterSchema_Always(params) == "collect_pipeline_param_defaults"

\* Line 26: if len(launcher.parameters) == 0.
AfterSchema(params) ==
    IF Len(params) = 0 THEN "collect_pipeline_param_defaults" ELSE "group_parameters"

\* launch_pipeline, lines 23-27.  schema.uri: params_local_uri was given;
\* schema.file: the file is "missing", "empty" or "ok"; schema.params: what
\* Parameters.create_from_json makes of it.  A given file that is missing
\* makes open() raise, which is no LookupError; a missing parameters.settings.json
\* of the local copy, or an empty file, is the LookupError that is only reported.
ParseParameterSettings ==
    /\ pc = "parse_parameter_settings"
    /\ \/ /\ schema.uri /\ schema.file = "missing"
          /\ pc' = "aborted"
          /\ UNCHANGED << parameters, shown >>
       \/ /\ ~(schema.uri /\ schema.file = "missing")
          /\ schema.file # "ok"
          /\ shown' = "warning"
          /\ pc' = AfterSchema(parameters)
          /\ UNCHANGED parameters
       \/ /\ schema.file = "ok"
          /\ parameters' = schema.params
          /\ pc' = AfterSchema(schema.params)
          /\ UNCHANGED shown
    /\ UNCHANGED << local_wf, grouped_parameters, nxf_flags, params_user, calls,
                    given, position, entered, retries, last, output >>

\* --------------------------------------------------------- prompt_param_flags

\* str(value), for the values that reach line 278.
PyStrOf(v) ==
    CASE v.ty = "str" -> v.s
      [] v.ty = "bool" -> IF v.n = 1 THEN << "T", "r", "u", "e" >>
                          ELSE << "F", "a", "l", "s", "e" >>
      [] v.ty = "NoneType" -> << "N", "o", "n", "e" >>

\* int(value) of a number or a text.
PyIntOf(v) ==
    CASE v.ty = "str" -> ParseInt(v.s)
      [] v.ty \in {"int", "bool"} -> Parsed(PyInt(v.n))
      [] v.ty = "float" /\ v.s = << >> ->
           Parsed(PyInt(IF v.e >= 0 THEN v.n * Pow10(v.e)
                        ELSE IF v.n >= 0 THEN v.n \div Pow10(0 - v.e)
                        ELSE 0 - ((0 - v.n) \div Pow10(0 - v.e))))
      [] OTHER -> ValueError

\* float(value) of a number or a text.
PyFloatOf(v) ==
    CASE v.ty = "str" -> ParseFloat(v.s)
      [] v.ty \in {"int", "bool"} -> Parsed(PyFloat(v.n, 0))
      [] v.ty = "float" -> Parsed(v)
      [] OTHER -> ValueError

\* Lines 272-278: "Set input parameter types".
Coerce(type, v) ==
    CASE type = "integer" -> PyIntOf(v)
      [] type = "decimal" -> PyFloatOf(v)
      [] OTHER -> Parsed(PyStr(PyStrOf(v)))

LowerLetters == {"a", "b", "c", "d", "e", "f", "g", "h", "i", "j", "k", "l", "m",
                 "n", "o", "p", "q", "r", "s", "t", "u", "v", "w", "x", "y", "z"}

\* re.match of the patterns the catalogs use.
Matches(pattern, t) ==
    CASE pattern = ".*" -> TRUE
      [] pattern = "^[a-z]+$" -> Len(t) > 0 /\ \A i \in 1..Len(t) : t[i] \in LowerLetters

\* Parameter.validate() returning normally: the pattern for a string
\* parameter, membership when choices are a set, the bounds when they are a range.
Valid(p) ==
    /\ (p.type = "string" /\ p.value.ty = "str") => Matches(p.pattern, p.value.s)
    /\ p.choices.kind = "set" => p.value \in p.choices.set
    /\ p.choices.kind = "range" => (p.choices.lo <= p.value.n /\ p.value.n <= p.choices.hi)

\* The catalog position of the parameter being prompted.
Current == grouped_parameters[group_i].v[param_i]

\* Lines 263-270: click.confirm for a boolean parameter, click.prompt otherwise.
AnswerFor(p, line) ==
    IF p.type = "boolean" THEN ClickConfirm(p.default_value, line)
    ELSE ClickPrompt(p.default_value, line)

\* The loops never moving on: the same parameter again after an accepted value.
Advance_Never == [pc |-> "PromptParameter", group_i |-> group_i, param_i |-> param_i]

\* The loops moving on with the groups begun again after a group's last parameter.
Advance_FirstGroup ==
    IF param_i < Len(grouped_parameters[group_i].v)
    THEN [pc |-> "PromptParameter", group_i |-> group_i, param_i |-> param_i + 1]
    ELSE [pc |-> "AskGroupOverride", group_i |-> 1, param_i |-> 1]

\* Where prompt_param_flags goes from the parameter at (group_i, param_i)
\* once the while loop has ended: the group's next parameter, else the next
\* group's question, else the end of the session.
Advance ==
    IF param_i < Len(grouped_parameters[group_i].v)
    THEN [pc |-> "PromptParameter", group_i |-> group_i, param_i |-> param_i + 1]
    ELSE IF group_i < Len(grouped_parameters)
    THEN [pc |-> "AskGroupOverride", group_i |-> group_i + 1, param_i |-> 1]
    ELSE [pc |-> "build_command", group_i |-> group_i + 1, param_i |-> 1]

Stay == [pc |-> "PromptParameter", group_i |-> group_i, param_i |-> param_i]

\* Lines 280-288 with the loop left whether or not validate() raised.
AfterValidate_Break(valid) == Advance

\* Lines 280-288: `continue` on an exception, value_is_valid = True otherwise.
AfterValidate(valid) == IF valid THEN Advance ELSE Stay

\* Lines 228-230 with the group's parameters prompted whatever the answer.
AfterGroupAnswer_AlwaysPrompt(use_defaults) ==
    [pc |-> "PromptParameter", group_i |-> group_i, param_i |-> 1]

\* Lines 228-230: `continue` to the next group unless the answer was yes
\* (use_defaults holds the answer to "do you want to change").
AfterGroupAnswer(use_defaults) ==
    IF use_defaults
    THEN [pc |-> "PromptParameter", group_i |-> group_i, param_i |-> 1]
    ELSE [pc |-> IF group_i < Len(grouped_parameters) THEN "AskGroupOverride"
                 ELSE "build_command",
          group_i |-> group_i + 1, param_i |-> param_i]

\* One pass of the for loop of line 220 up to its question: a line typed at
\* "Do you want to change the group's defaults?".
AskGroupOverride(Lines) ==
    /\ pc = "AskGroupOverride"
    /\ \E line \in Lines :
         /\ last' = line
         /\ LET answer == ClickConfirm(PyBool(FALSE), line)
            IN  \/ /\ answer.ok
                   /\ pc' = AfterGroupAnswer(answer.v = PyBool(TRUE)).pc
                   /\ group_i' = AfterGroupAnswer(answer.v = PyBool(TRUE)).group_i
                   /\ param_i' = AfterGroupAnswer(answer.v = PyBool(TRUE)).param_i
                   /\ chosen' = IF answer.v = PyBool(TRUE) THEN Append(chosen, group_i)
                                ELSE chosen
                   /\ shown' = "prompt"
                   /\ UNCHANGED retries
                \/ /\ ~answer.ok
                   /\ retries < MaxRetries
                   /\ retries' = retries + 1
                   /\ shown' = "click error"
                   /\ UNCHANGED << pc, group_i, param_i, chosen >>
    /\ UNCHANGED << local_wf, parameters, grouped_parameters, nxf_flags, params_user,
                    calls, given, flag_i, entered, accepted, output >>

\* One pass of the while loop of line 233: a line typed at the parameter's
\* prompt, the value assigned and coerced, and validate().
PromptParameter(Lines) ==
    /\ pc = "PromptParameter"
    /\ \E line \in Lines[parameters[Current].type] :
         /\ last' = line
         /\ LET answer == AnswerFor(parameters[Current], line)
                coerced == Coerce(parameters[Current].type, answer.v)
            IN  \/ /\ ~answer.ok
                   /\ retries < MaxRetries
                   /\ retries' = retries + 1
                   /\ shown' = "click error"
                   /\ UNCHANGED << pc, parameters, group_i, param_i, accepted >>
                \/ /\ answer.ok /\ ~coerced.ok
                   /\ parameters' = [parameters EXCEPT ![Current].value = answer.v]
                   /\ pc' = "aborted"
                   /\ UNCHANGED << group_i, param_i, shown, retries, accepted >>
                \/ /\ answer.ok /\ coerced.ok
                   /\ parameters' = [parameters EXCEPT ![Current].value = coerced.v]
                   /\ Valid(parameters'[Current]) \/ retries < MaxRetries
                   /\ retries' = IF Valid(parameters'[Current]) THEN retries ELSE retries + 1
                   /\ shown' = IF Valid(parameters'[Current]) THEN "accepted"
                               ELSE "validation error"
                   /\ accepted' = IF Valid(parameters'[Current]) THEN Append(accepted, Current)
                                  ELSE accepted
                   /\ pc' = AfterValidate(Valid(parameters'[Current])).pc
                   /\ group_i' = AfterValidate(Valid(parameters'[Current])).group_i
                   /\ param_i' = AfterValidate(Valid(parameters'[Current])).param_i
    /\ UNCHANGED << local_wf, grouped_parameters, nxf_flags, params_user, calls,
                    given, flag_i, entered, chosen, output >>

\* -------------------------------------------------------------- build_command

\* The text of a run flag.
FlagText(flag) ==
    CASE flag = "-name" -> << "-", "n", "a", "m", "e" >>
      [] flag = "-r" -> << "-", "r" >>
      [] flag = "-profile" -> << "-", "p", "r", "o", "f", "i", "l", "e" >>
      [] flag = "-w" -> << "-", "w" >>
      [] flag = "-resume" -> << "-", "r", "e", "s", "u", "m", "e" >>

\* val.replace('"', '\\"').
RECURSIVE EscapeQuotes(_)
EscapeQuotes(t) ==
    IF Len(t) = 0 THEN << >>
    ELSE (IF Head(t) = "\"" THEN << "\\", "\"" >> ELSE << Head(t) >>) \o EscapeQuotes(Tail(t))

\* '{} {} "{}"'.format(cmd, token, text)
FormatQuoted(cmd, token, text) == cmd \o << " " >> \o token \o << " ", "\"" >> \o text \o << "\"" >>

\* Lines 294-301 with the value put in the quotes as it is.
AppendFlag_NoEscape(cmd, flag, val) ==
    IF val.ty = "bool"
    THEN IF val.n = 1 THEN cmd \o << " " >> \o FlagText(flag) ELSE cmd
    ELSE FormatQuoted(cmd, FlagText(flag), val.s)

\* Lines 294-301: what one entry of nxf_flags adds to the command.
AppendFlag(cmd, flag, val) ==
    IF val.ty = "bool"
    THEN IF val.n = 1 THEN cmd \o << " " >> \o FlagText(flag) ELSE cmd
    ELSE FormatQuoted(cmd, FlagText(flag), EscapeQuotes(val.s))

\* Line 298: the warning one entry of nxf_flags logs.
WarnFlag(log, val) ==
    IF val.ty = "bool" /\ val.n = 0
    THEN Append(log, "TODO: Can't set false boolean flags currently.")
    ELSE log

\* The loop of lines 292-301 over nxf_flags.items(): [cmd, log].
RECURSIVE BuildFlags(_, _, _)
BuildFlags(flags, cmd, log) ==
    IF Len(flags) = 0 THEN [cmd |-> cmd, log |-> log]
    ELSE BuildFlags(Tail(flags), AppendFlag(cmd, Head(flags).k, Head(flags).v),
                    WarnFlag(log, Head(flags).v))

\* Lines 313-320: what one entry of params_user adds to the command.  Only a
\* boolean or a text gets through val.replace.
AppendParam(cmd, param, val) ==
    CASE val.ty = "bool" ->
           IF val.n = 1 THEN cmd \o << " ", "-", "-" >> \o param ELSE cmd
      [] val.ty = "str" -> FormatQuoted(cmd, << "-", "-" >> \o param, EscapeQuotes(val.s))

\* Line 317: the error one entry of params_user logs.
WarnParam(log, val) ==
    IF val.ty = "bool" /\ val.n = 0 THEN Append(log, "Can't set false boolean flags.")
    ELSE log

\* The loop of lines 311-320 over params_user.items(): [cmd, log].
RECURSIVE BuildParams(_, _, _)
BuildParams(params, cmd, log) ==
    IF Len(params) = 0 THEN [cmd |-> cmd, log |-> log]
    ELSE BuildParams(Tail(params), AppendParam(cmd, Head(params).k, Head(params).v),
                     WarnParam(log, Head(params).v))

\* os.path.join(dir, name) of a relative name.
PathJoin(dir, name) ==
    IF Len(dir) = 0 THEN name
    ELSE IF dir[Len(dir)] = "/" THEN dir \o name
    ELSE dir \o << "/" >> \o name

NfxParamsName ==
    << "n", "f", "x", "-", "p", "a", "r", "a", "m", "s", ".", "j", "s", "o", "n" >>
FullParamsName ==
    << "f", "u", "l", "l", "-", "p", "a", "r", "a", "m", "s", ".", "j", "s", "o", "n" >>
ParamsFileFlag ==
    << "-", "-", "p", "a", "r", "a", "m", "s", "-", "f", "i", "l", "e" >>

\* Parameters.in_nextflow_json: the mapping of each name to its current value.
RECURSIVE InNextflowJson(_, _)
InNextflowJson(params, record) ==
    IF Len(params) = 0 THEN record
    ELSE InNextflowJson(Tail(params), SetItem(record, Head(params).name, Head(params).value))

\* Parameters.in_full_json: every parameter with all that is known of it.
InFullJson(params) == params

\* A parameter's value is not its default.
Changed(parameter) == parameter.value # parameter.default_value

\* create_nfx_params_file writing only the parameters that were changed.
CreateNfxParamsFile_OnlyChanged(disk, dir, params) ==
    SetItem(disk, PathJoin(dir, NfxParamsName),
            InNextflowJson(SelectSeq(params, Changed), << >>))

\* create_nfx_params_file, lines 322-328: the files with the params file written.
CreateNfxParamsFile(disk, dir, params) ==
    SetItem(disk, PathJoin(dir, NfxParamsName), InNextflowJson(params, << >>))

\* write_params_as_full_json, lines 330-335.
WriteParamsAsFullJson(disk, dir, params) ==
    SetItem(disk, PathJoin(dir, FullParamsName), InFullJson(params))

\* build_command with the two files written in inline mode as well.
BuildCommand_AlwaysWrites ==
    /\ pc = "build_command"
    /\ nextflow_cmd' =
         IF use_params_file
         THEN FormatQuoted(BuildFlags(nxf_flags, nextflow_cmd, warnings).cmd,
                           ParamsFileFlag, PathJoin(cwd, NfxParamsName))
         ELSE BuildParams(params_user, BuildFlags(nxf_flags, nextflow_cmd, warnings).cmd,
                          << >>).cmd
    /\ warnings' =
         IF use_params_file THEN BuildFlags(nxf_flags, nextflow_cmd, warnings).log
         ELSE BuildParams(params_user, nextflow_cmd,
                          BuildFlags(nxf_flags, nextflow_cmd, warnings).log).log
    /\ files' = WriteParamsAsFullJson(CreateNfxParamsFile(files, cwd, parameters),
                                      cwd, parameters)
    /\ pc' = "launch_workflow"
    /\ UNCHANGED << local_wf, parameters, grouped_parameters, nxf_flags, params_user,
                    calls, given, position, console, displayed, executed >>

\* build_command.  The flags first; then, with use_params_file, the params
\* file, its reference and the full record, else the entries of params_user.
BuildCommand ==
    /\ pc = "build_command"
    /\ nextflow_cmd' =
         IF use_params_file
         THEN FormatQuoted(BuildFlags(nxf_flags, nextflow_cmd, warnings).cmd,
                           ParamsFileFlag, PathJoin(cwd, NfxParamsName))
         ELSE BuildParams(params_user, BuildFlags(nxf_flags, nextflow_cmd, warnings).cmd,
                          << >>).cmd
    /\ warnings' =
         IF use_params_file THEN BuildFlags(nxf_flags, nextflow_cmd, warnings).log
         ELSE BuildParams(params_user, nextflow_cmd,
                          BuildFlags(nxf_flags, nextflow_cmd, warnings).log).log
    /\ files' =
         IF use_params_file
         THEN WriteParamsAsFullJson(CreateNfxParamsFile(files, cwd, parameters),
                                    cwd, parameters)
         ELSE files
    /\ pc' = "launch_workflow"
    /\ UNCHANGED << local_wf, parameters, grouped_parameters, nxf_flags, params_user,
                    calls, given, position, console, displayed, executed >>

\* ------------------------------------------------------------ launch_workflow

\* launch_workflow forgetting the run flags once the command is displayed.
ShowCommand_DropsOverrides ==
    /\ pc = "launch_workflow"
    /\ displayed' = Append(displayed, nextflow_cmd)
    /\ shown' = "command"
    /\ nxf_flags' = << >>
    /\ pc' = "ConfirmRun"
    /\ UNCHANGED << local_wf, parameters, grouped_parameters, params_user,
                    calls, given, position, entered, retries, last,
                    nextflow_cmd, files, executed, warnings >>

\* Lines 339-340: the command is displayed.
ShowCommand ==
    /\ pc = "launch_workflow"
    /\ displayed' = Append(displayed, nextflow_cmd)
    /\ shown' = "command"
    /\ pc' = "ConfirmRun"
    /\ UNCHANGED << local_wf, parameters, grouped_parameters, nxf_flags, params_user,
                    calls, given, position, entered, retries, last,
                    nextflow_cmd, files, executed, warnings >>

\* Lines 342-348 with the command run whatever the answer.
RunIf_Always(answer, cmd, runs) == Append(runs, cmd)

\* Lines 342-348: subprocess.call(self.nextflow_cmd, shell=True) on a yes.
\* The shell is started whether or not nextflow is there, and its exit
\* status is not looked at.
RunIf(answer, cmd, runs) == IF answer = PyBool(TRUE) THEN Append(runs, cmd) ELSE runs

\* A line typed at "Do you want to run this command now?".
ConfirmRun(Lines) ==
    /\ pc = "ConfirmRun"
    /\ \E line \in Lines :
         /\ last' = line
         /\ \/ /\ ClickConfirm(PyBool(FALSE), line).ok
               /\ executed' = RunIf(ClickConfirm(PyBool(FALSE), line).v, nextflow_cmd, executed)
               /\ shown' = "prompt"
               /\ pc' = "done"
               /\ UNCHANGED retries
            \/ /\ ~ClickConfirm(PyBool(FALSE), line).ok
               /\ retries < MaxRetries
               /\ retries' = retries + 1
               /\ shown' = "click error"
               /\ UNCHANGED << pc, executed >>
    /\ UNCHANGED << local_wf, parameters, grouped_parameters, nxf_flags, params_user,
                    calls, given, position, entered,
                    nextflow_cmd, files, displayed, warnings >>

\* ----------------------------------------------------- inputs of a session

ReadsText == << "r", "e", "a", "d", "s" >>
GenomeText == << "g", "e", "n", "o", "m", "e" >>
RatioText == << "r", "a", "t", "i", "o" >>
SaveAllName == << "s", "a", "v", "e", "_", "a", "l", "l" >>

Range(lo, hi) == [kind |-> "range", set |-> {}, lo |-> lo, hi |-> hi]

\* Scenario A: one integer parameter `reads`, default 1, here with a range.
CatalogReads ==
    << Parameter(ReadsText, "integer", Range(1, 8), PyInt(1), ".*", "Input") >>

\* A parameter of each other type, in two groups that interleave.
CatalogMixed ==
    << Parameter(GenomeText, "string", NoChoices, PyStr(<< "a" >>), "^[a-z]+$", "Input"),
       Parameter(SaveAllName, "boolean", NoChoices, PyBool(FALSE), ".*", "Output"),
       Parameter(RatioText, "decimal", NoChoices, PyFloat(5, -1), ".*", "Input") >>

\* The fallback map {params.save_all: true, params.a: 07, env.a: x}.
ConfigFallback ==
    Config(<< [k |-> KeySaveAll, v |-> TrueText],
              [k |-> KeyA, v |-> << "0", "7" >>],
              [k |-> << "e", "n", "v", ".", "a" >>, v |-> << "x" >>] >>)

Schema(uri, file, params) == [uri |-> uri, file |-> file, params |-> params]

\* The schema document and the fallback map of a session.
Scenarios ==
    { [schema |-> Schema(FALSE, "ok", CatalogReads), config |-> ConfigFallback],
      [schema |-> Schema(TRUE, "ok", CatalogMixed), config |-> Config(<< >>)],
      [schema |-> Schema(FALSE, "ok", << >>), config |-> ConfigFallback],
      [schema |-> Schema(TRUE, "empty", << >>), config |-> Config(<< >>)],
      [schema |-> Schema(TRUE, "missing", << >>), config |-> ConfigFallback],
      [schema |-> NoSchema, config |-> ConfigFallback],
      [schema |-> NoSchema, config |-> FetchFailure] }

\* What the operator may type at a flag's prompt in a session.
SessionFlagLines == [f_default \in PromptDefaults |->
    IF f_default.ty = "bool" THEN { << >>, << "y" >> }
    ELSE IF f_default.s = << >> THEN { << >>, << "x" >> }
    ELSE { << >>, Quoted(f_default.s) }]

\* What the operator may type at a yes/no question.
ConfirmLines == { << >>, << "y" >>, << "n" >>, << "x" >> }

\* What the operator may type at a parameter's prompt.
ParamLines == [type \in {"string", "integer", "decimal", "boolean"} |->
    CASE type = "integer" -> { << >>, << "4" >>, << "9" >>, << "a", "b", "c" >> }
      [] type = "decimal" -> { << >>, << "0", ".", "5" >>, << "2" >>, << "a", "b", "c" >> }
      [] type = "boolean" -> ConfirmLines
      [] OTHER -> { << >>, << "b" >>, << "B" >> }]

\* ---------------------------------------------------------------- the session

\* launch_pipeline after Launch(workflow): the workflow cached or not, the
\* --direct switch, NXF_WORK unset, and one of Scenarios.
Init ==
    /\ Constructed
    /\ pc = "get_local_wf"
    /\ local_wf \in BOOLEAN
    /\ direct \in BOOLEAN
    /\ engine \in BOOLEAN
    /\ cwd = CwdText
    /\ nxf_flag_defaults = FlagDefaults(<< >>)
    /\ \E scenario \in Scenarios :
         /\ schema = scenario.schema
         /\ config = IF engine THEN scenario.config ELSE FetchFailure

AskRunFlagSession == AskRunFlag(SessionFlagLines)
AskGroupOverrideSession == AskGroupOverride(ConfirmLines)
PromptParameterSession == PromptParameter(ParamLines)
ConfirmRunSession == ConfirmRun(ConfirmLines)

Next ==
    \/ GetLocalWf
    \/ ParseParameterSettings
    \/ CollectPipelineParamDefaults
    \/ GroupParameters
    \/ AskRunFlagSession
    \/ AskGroupOverrideSession
    \/ PromptParameterSession
    \/ BuildCommand
    \/ ShowCommand
    \/ ConfirmRunSession

\* launch_pipeline.
Spec == Init /\ [][Next]_vars

\* The same session of a Launch object whose use_params_file was cleared
\* after construction: build_command in inline mode.
InitInline ==
    /\ NothingCollected
    /\ parameters = << >>
    /\ use_params_file = FALSE
    /\ pc = "get_local_wf"
    /\ local_wf \in BOOLEAN
    /\ direct \in BOOLEAN
    /\ engine = TRUE
    /\ cwd = CwdText
    /\ nxf_flag_defaults = FlagDefaults(<< >>)
    /\ \E scenario \in Scenarios : schema = scenario.schema /\ config = scenario.config

SpecInline == InitInline /\ [][Next]_vars

\* A session in either mode.
InitModes == Init \/ InitInline

SpecModes == InitModes /\ [][Next]_vars

\* The operator's answer to a parameter's prompt is accepted.
AcceptParameter == PromptParameterSession /\ shown' = "accepted"
\* The operator answers a group's question with yes or no.
AnswerGroup == AskGroupOverrideSession /\ shown' = "prompt"

\* launch_pipeline with an operator who, at each question and each
\* parameter, eventually gives an answer that is accepted.
SpecLive == Init /\ [][Next]_vars /\ WF_vars(AcceptParameter) /\ WF_vars(AnswerGroup)

\* What the operator may type at a flag's prompt in SpecFlagsBuild.
FlagBuildLines == [f_default \in PromptDefaults |->
    IF f_default.ty = "bool" THEN { << >>, << "y" >>, << "n" >> }
    ELSE { << >>, << "x", "\"", "y" >>, Quoted(f_default.s),
           TrueText, Quoted(<< "F", "a", "l", "s", "e" >>) }]

AskRunFlagBuild == AskRunFlag(FlagBuildLines)

\* prompt_core_nxf_flags and build_command of a --direct session with an
\* empty catalog, for the lines of FlagBuildLines.
SpecFlagsBuild == InitFlags /\ [][AskRunFlagBuild \/ BuildCommand]_vars

\* ------------------------------------------------------------ Launch.__init__

NfCoreText == << "n", "f", "-", "c", "o", "r", "e" >>
NfCorePrefix == NfCoreText \o << "/" >>
NextflowRunText == << "n", "e", "x", "t", "f", "l", "o", "w", " ", "r", "u", "n", " " >>

\* sub in t, for texts.
RECURSIVE Contains(_, _)
Contains(t, sub) ==
    IF Len(t) < Len(sub) THEN FALSE
    ELSE IF SubSeq(t, 1, Len(sub)) = sub THEN TRUE
    ELSE Contains(Tail(t), sub)

\* t.count(ch) of a one-character ch.
RECURSIVE Count(_, _)
Count(t, ch) ==
    IF Len(t) = 0 THEN 0
    ELSE (IF Head(t) = ch THEN 1 ELSE 0) + Count(Tail(t), ch)

\* Lines 48-49 without the test for 'nf-core' in the name.
NormalizeWorkflow_AnyName(name, exists) ==
    IF Count(name, "/") = 0 /\ ~exists THEN NfCorePrefix \o name ELSE name

\* Lines 48-49: 'nf-core/' is put before the name if it seems sensible.
NormalizeWorkflow(name, exists) ==
    IF ~Contains(name, NfCoreText) /\ Count(name, "/") = 0 /\ ~exists
    THEN NfCorePrefix \o name
    ELSE name

\* Launch(workflow), lines 47-81, for the fields the command is built from.
Construct ==
    /\ pc = "Launch"
    /\ workflow' = NormalizeWorkflow(workflow, is_path)
    /\ nextflow_cmd' = NextflowRunText \o workflow'
    /\ use_params_file' = TRUE
    /\ pc' = "prompt_core_nxf_flags"
    /\ UNCHANGED << local_wf, parameters, grouped_parameters, nxf_flags, params_user, calls,
                    nxf_flag_defaults, direct, schema, config, engine, cwd, is_path,
                    position, console, files, displayed, executed, warnings >>

\* The caller clears use_params_file on the constructed object, as in InitInline.
ClearUseParamsFile ==
    /\ pc = "prompt_core_nxf_flags"
    /\ flag_i = 1
    /\ retries = 0
    /\ use_params_file
    /\ use_params_file' = FALSE
    /\ UNCHANGED << pc, local_wf, parameters, grouped_parameters, nxf_flags, params_user, calls,
                    nxf_flag_defaults, direct, schema, config, engine, cwd, workflow, is_path,
                    position, console, output >>

\* The workflow names launch_pipeline is given.
ShortNames == UNION { [1..n -> {"a", "/"}] : n \in 1..MaxLen }

WorkflowNames ==
    ShortNames
      \cup { NfCoreText, << "n", "f", "-", "c", "o", "r" >>,
             << "N", "f", "-", "c", "o", "r", "e" >>, << "n", "f", "_", "c", "o", "r", "e" >> }
      \cup { NfCoreText \o t : t \in ShortNames }
      \cup { t \o NfCoreText : t \in ShortNames }

\* What the operator may type at a flag's prompt in SpecWorkflow.
WorkflowFlagLines == [f_default \in PromptDefaults |->
    IF f_default.ty = "bool" THEN { << >>, << "y" >> }
    ELSE IF f_default.s = << >> THEN { << >>, << "x" >> }
    ELSE { << >> }]

AskRunFlagWorkflow == AskRunFlag(WorkflowFlagLines)

\* launch_pipeline is called with a name that is or is not a local path.
InitWorkflow ==
    /\ pc = "Launch"
    /\ workflow \in WorkflowNames
    /\ is_path \in BOOLEAN
    /\ nextflow_cmd = << >>
    /\ use_params_file = TRUE
    /\ parameters = << >>
    /\ grouped_parameters = << >>
    /\ nxf_flags = << >>
    /\ params_user = << >>
    /\ flag_i = 1
    /\ group_i = 1
    /\ param_i = 1
    /\ chosen = << >>
    /\ accepted = << >>
    /\ entered = << >>
    /\ shown = "nothing"
    /\ retries = 0
    /\ last = << >>
    /\ calls = 0
    /\ files = << >>
    /\ displayed = << >>
    /\ executed = << >>
    /\ warnings = << >>
    /\ engine = TRUE
    /\ cwd = CwdText
    /\ local_wf = TRUE
    /\ direct = TRUE
    /\ schema = NoSchema
    /\ config = Config(<< >>)
    /\ nxf_flag_defaults = FlagDefaults(<< >>)

\* The construction of a Launch, then prompt_core_nxf_flags and
\* build_command of a --direct session with an empty catalog.
SpecWorkflow ==
    InitWorkflow /\ [][Construct \/ ClearUseParamsFile \/ AskRunFlagWorkflow \/ BuildCommand]_vars

\* ------------------------------------------------ properties of the session

\* Both prompting methods have returned.
SessionComplete == pc = "build_command"

\* The value finally accepted for the flag at position i.
AcceptedFlag(i) == NormalizeFlag(Returned(i))

\* C1: after a complete session the Override Set (nxf_flags for the run
\* flags, params_user for the parameters) has an entry for X exactly when
\* the value finally accepted for X differs from X's default.
OverrideSetIffChanged ==
    SessionComplete =>
      /\ \A i \in 1..Len(nxf_flag_defaults) :
           HasKey(nxf_flags, nxf_flag_defaults[i].k)
             <=> ~PyEq(AcceptedFlag(i), PromptDefault(nxf_flag_defaults[i].v))
      /\ \A i \in 1..Len(parameters) :
           HasKey(params_user, parameters[i].name)
             <=> ~PyEq(parameters[i].value, parameters[i].default_value)

\* The runtime type a declared type names.
RuntimeType(type) ==
    CASE type = "integer" -> "int"
      [] type = "decimal" -> "float"
      [] type = "boolean" -> "bool"
      [] type = "string" -> "str"

\* C3: in every reachable state each Parameter's current value has the
\* runtime type its declared type names.
ValueTypeMatchesDeclaredType ==
    \A i \in 1..Len(parameters) : parameters[i].value.ty = RuntimeType(parameters[i].type)

SamePosition == pc' = pc /\ group_i' = group_i /\ param_i' = param_i

\* C4: a step at a parameter's prompt never aborts the session and changes
\* no other parameter; when an error is shown, or the parameter is left with
\* a value that does not validate, an error is on the screen and the same
\* parameter is prompted again; the prompt moves on only with an accepted,
\* valid value.
FailedInputRepromptsStep ==
    pc = "PromptParameter" =>
      /\ pc' # "aborted"
      /\ Len(parameters') = Len(parameters)
      /\ \A i \in 1..Len(parameters) : i # Current => parameters'[i] = parameters[i]
      /\ shown' \in {"click error", "validation error"} => SamePosition
      /\ ~Valid(parameters'[Current]) =>
           (shown' \in {"click error", "validation error"} /\ SamePosition)
      /\ ~SamePosition => (shown' = "accepted" /\ Valid(parameters'[Current]))

FailedInputReprompts == [][FailedInputRepromptsStep]_vars

\* Scenario A's `reads`, range 1 to 8, holds the refused 9, the error is on
\* the screen and the prompt is still at `reads`.
FailedInputRepromptsWitness ==
    /\ pc = "PromptParameter"
    /\ shown = "validation error"
    /\ retries = MaxRetries
    /\ parameters[Current].name = ReadsText
    /\ parameters[Current].value = PyInt(9)

\* ------------------------------------------------- properties of the command

\* build_command has returned.
Built == pc \in {"launch_workflow", "ConfirmRun", "done"}

RECURSIVE Concat(_)
Concat(texts) == IF Len(texts) = 0 THEN << >> ELSE Head(texts) \o Concat(Tail(texts))

\* t with a backslash put before each double quote.
Backslashed(t) ==
    Concat([i \in 1..Len(t) |-> IF t[i] = "\"" THEN << "\\", "\"" >> ELSE << t[i] >>])

\* The text the rule gives for one entry of the run-flag Override Set.
ExpectedFlagToken(entry) ==
    IF entry.v = PyBool(TRUE) THEN << " " >> \o FlagText(entry.k)
    ELSE IF entry.v = PyBool(FALSE) THEN << >>
    ELSE << " " >> \o FlagText(entry.k) \o << " ", "\"" >> \o Backslashed(entry.v.s) \o << "\"" >>

\* The run-flag part the rule gives for nxf_flags.
ExpectedFlagsPart == Concat([i \in 1..Len(nxf_flags) |-> ExpectedFlagToken(nxf_flags[i])])

\* The reference to the params file.
FileRefToken ==
    << " " >> \o ParamsFileFlag \o << " ", "\"" >> \o PathJoin(cwd, NfxParamsName) \o << "\"" >>

\* C11: build_command turns each entry of nxf_flags into text by one rule:
\* true gives the bare flag, false gives nothing and a warning, any other
\* value gives the flag and the value in double quotes with each embedded
\* double quote escaped.
FlagEntriesFollowOneRule ==
    (Built /\ use_params_file) =>
      /\ nextflow_cmd = BaseCmd \o ExpectedFlagsPart \o FileRefToken
      /\ Len(warnings) = Cardinality({i \in 1..Len(nxf_flags) : nxf_flags[i].v = PyBool(FALSE)})

\* The operator typed true at -profile, "False" at -r and x"y at -name, and
\* the command is built.
FlagEntriesFollowOneRuleWitness ==
    /\ Built
    /\ HasKey(nxf_flags, "-profile") /\ GetItem(nxf_flags, "-profile") = PyBool(TRUE)
    /\ HasKey(nxf_flags, "-r") /\ GetItem(nxf_flags, "-r") = PyBool(FALSE)
    /\ HasKey(nxf_flags, "-name") /\ GetItem(nxf_flags, "-name") = PyStr(<< "x", "\"", "y" >>)
    /\ entered[3] = TrueText

\* The places of t where sub begins.
Occurrences(t, sub) ==
    { i \in 1..(Len(t) - Len(sub) + 1) : SubSeq(t, i, i + Len(sub) - 1) = sub }

\* The catalog positions whose accepted value differs from the default.
Overridden == { i \in 1..Len(parameters) : parameters[i].value # parameters[i].default_value }

\* The start of the token of the parameter at catalog position i.
ParamToken(i) == << " ", "-", "-" >> \o parameters[i].name

\* C12: in file mode the command has exactly one reference to the params
\* file; in inline mode it has one token for each overridden parameter and
\* no reference to the params file.
ModeDecidesParameterTokens ==
    Built =>
      IF use_params_file
      THEN Cardinality(Occurrences(nextflow_cmd, FileRefToken)) = 1
      ELSE /\ \A i \in Overridden : Cardinality(Occurrences(nextflow_cmd, ParamToken(i))) = 1
           /\ Occurrences(nextflow_cmd, ParamsFileFlag) = {}

\* The params file as it is on disk.
ParamsFile == GetItem(files, PathJoin(cwd, NfxParamsName))

LeftAtDefault(i) ==
    Answered(i) /\ Returned(i) = PromptDefault(nxf_flag_defaults[i].v)

\* The places of the command where the flag stands as a token of its own.
FlagTokens(flag) ==
    { i \in Occurrences(nextflow_cmd, << " " >> \o FlagText(flag)) :
        \/ i + Len(FlagText(flag)) = Len(nextflow_cmd)
        \/ nextflow_cmd[i + Len(FlagText(flag)) + 1] = " " }

\* C14: a run flag left at its default has no entry in nxf_flags and no
\* token in the assembled command; with all five left at default the
\* command's run-flag part is empty.
DefaultFlagsLeaveNoTrace ==
    /\ \A i \in 1..Len(nxf_flag_defaults) :
         LeftAtDefault(i) =>
           /\ ~HasKey(nxf_flags, nxf_flag_defaults[i].k)
           /\ Built => FlagTokens(nxf_flag_defaults[i].k) = {}
    /\ ( /\ Built
         /\ \A i \in 1..Len(nxf_flag_defaults) : LeftAtDefault(i) )
       => nextflow_cmd = BaseCmd \o FileRefToken

\* Scenario C and more: the operator pressed Enter at the four text flags
\* and typed n at -resume; the command is built.
DefaultFlagsLeaveNoTraceWitness ==
    /\ Built
    /\ \A i \in 1..Len(nxf_flag_defaults) : LeftAtDefault(i)
    /\ entered[5] = << "n" >>
    /\ nxf_flags = << >>

\* ----------------------------------------------- properties of the launch

\* What the operator typed reads as yes, or as no (Enter being the default no).
SaidYes(line) == Lower(Strip(line, Whitespace)) \in { << "y" >>, << "y", "e", "s" >> }
SaidNo(line) == Lower(Strip(line, Whitespace)) \in { << >>, << "n" >>, << "n", "o" >> }

\* Everything but the console and the place in launch_pipeline.
kept == << local_wf, parameters, grouped_parameters, nxf_flags, params_user, calls,
           given, position, nextflow_cmd, files, displayed, warnings >>

\* The question is only asked with the command on the screen; what has been
\* executed is at most one command, the displayed one, after a yes.
Gated ==
    /\ pc = "ConfirmRun" => displayed = << nextflow_cmd >>
    /\ Len(executed) <= 1
    /\ executed # << >> =>
         (pc = "done" /\ SaidYes(last) /\ executed = displayed /\ executed = << nextflow_cmd >>)

\* C15: launch_workflow displays the command before it asks; it executes
\* only after a yes, at most once, exactly the displayed text; on a no
\* nothing is executed and no state or file changes.
LaunchIsGated ==
    [][ /\ Gated'
        /\ pc = "ConfirmRun" => UNCHANGED kept
        /\ (pc = "ConfirmRun" /\ SaidNo(last')) =>
             (pc' = "done" /\ UNCHANGED executed /\ executed = << >>)
        /\ (pc = "ConfirmRun" /\ SaidYes(last')) =>
             (pc' = "done" /\ executed' = << nextflow_cmd >>) ]_vars

\* The operator said yes: the displayed command was executed, once, with the
\* two files of build_command on disk.
LaunchIsGatedWitness ==
    /\ pc = "done"
    /\ executed = << nextflow_cmd >>
    /\ displayed = executed
    /\ Len(files) = 2
    /\ last = << "y" >>

\* ------------------------------------------ properties of the fatal conditions

\* C16: a session that ended in a fatal condition has written no output
\* file, and output files exist only once build_command has returned, after
\* which no fatal condition occurs.
NoFileBeforeFatal ==
    /\ pc = "aborted" => files = << >>
    /\ files # << >> => Built

\* The engine is missing and no copy is cached: the pull failed, the session
\* is over and nothing is on disk.
NoFileBeforeFatalWitness ==
    /\ pc = "aborted"
    /\ ~engine
    /\ ~local_wf
    /\ files = << >>

\* C17: when the engine cannot be located the session aborts before any
\* prompt is issued, cached copy or not: no line is ever taken from the
\* operator.
EngineMissingAbortsBeforePrompt ==
    ~engine => (entered = << >> /\ last = << >>)

\* C18: whenever the schema document is not found (or is empty),
\* parse_parameter_settings warns and returns with the catalog empty, and
\* the session goes on to the fallback.
SchemaUnavailableIsRecoverable ==
    [][ (pc = "parse_parameter_settings" /\ schema.file # "ok") =>
          /\ shown' = "warning"
          /\ parameters' = << >>
          /\ pc' = "collect_pipeline_param_defaults" ]_vars

\* ------------------------------------------------- properties of the groups

AtQuestion == pc = "AskGroupOverride"
AtParameter == pc = "PromptParameter"

\* The catalog positions of the group at position g of the grouping.
MembersOf(g) == { grouped_parameters[g].v[j] : j \in 1..Len(grouped_parameters[g].v) }

\* The group's question has just been answered, or a parameter's prompt left.
MovedOn == pc' # pc \/ group_i' # group_i \/ param_i' # param_i

\* C19: the groups are visited in grouping order, each question is answered
\* once, and a group the session has moved past is never prompted again:
\* the group position never goes back, it moves on by one only from that
\* group's own question or from its last parameter, a question is arrived at
\* only for the next group, and a parameter prompt only changes a parameter
\* of the group the session is at.
GroupsVisitedOnceInOrder ==
    [][ /\ group_i' \in {group_i, group_i + 1}
        /\ group_i' # group_i => (AtQuestion \/ (AtParameter /\ param_i = Len(grouped_parameters[group_i].v)))
        /\ (AtQuestion /\ MovedOn) =>
             \/ pc' = "PromptParameter" /\ group_i' = group_i /\ param_i' = 1
             \/ pc' = "AskGroupOverride" /\ group_i' = group_i + 1
             \/ pc' = "build_command" /\ group_i = Len(grouped_parameters)
        /\ (AtParameter /\ MovedOn) =>
             \/ pc' = "PromptParameter" /\ group_i' = group_i /\ param_i' = param_i + 1
             \/ pc' = "AskGroupOverride" /\ group_i' = group_i + 1
             \/ pc' = "build_command" /\ group_i = Len(grouped_parameters)
        /\ (pc' = "AskGroupOverride" /\ ~AtQuestion /\ ~AtParameter) => group_i' = 1
        /\ (pc' \in {"AskGroupOverride", "PromptParameter"}) => group_i' \in 1..Len(grouped_parameters)
        /\ AtParameter =>
             /\ Current \in MembersOf(group_i)
             /\ \A i \in 1..Len(parameters) : parameters'[i] # parameters[i] => i = Current
        /\ ~AtParameter => parameters' = parameters \/ pc \in {"parse_parameter_settings", "collect_pipeline_param_defaults"} ]_vars

\* The first group's `genome` was refused once and then changed, and the
\* session is at a parameter of the second group.
GroupsVisitedOnceInOrderWitness ==
    /\ AtParameter
    /\ group_i = 2
    /\ retries >= 1
    /\ parameters[1].name = GenomeText
    /\ parameters[1].value = PyStr(<< "b" >>)

\* C20: on a no (Enter included) to a group's question none of the group's
\* parameters is prompted, each keeps its value, which is its default, and
\* the session is at the next group.
NoSkipsTheGroup ==
    [][ (AtQuestion /\ SaidNo(last')) =>
          /\ pc' # "PromptParameter"
          /\ group_i' = group_i + 1
          /\ parameters' = parameters
          /\ \A i \in MembersOf(group_i) :
               parameters'[i].value = parameters'[i].default_value ]_vars

\* The first group was skipped with n: the session is at the second group's
\* question and the first group's parameters are at their defaults.
NoSkipsTheGroupWitness ==
    /\ AtQuestion
    /\ group_i = 2
    /\ last = << "n" >>
    /\ \A i \in MembersOf(1) : parameters[i].value = parameters[i].default_value

\* --------------------------------------------- properties of the retry loop

\* prompt_param_flags has returned, or was never called.
PromptingDone == pc = "build_command" \/ Built

\* The parameters of the groups the operator chose, in the order prompted.
ParametersOfChosen == Concat([j \in 1..Len(chosen) |-> grouped_parameters[chosen[j]].v])

\* C21: with an operator who eventually gives an acceptable value the
\* prompting ends, with exactly one accepted value for each parameter of each
\* chosen group; and a parameter's prompt is left only with an accepted,
\* valid value, every other step staying at the same parameter.
PromptingEndsOnlyByAcceptance ==
    /\ (AtQuestion \/ AtParameter) ~> PromptingDone
    /\ [](PromptingDone => accepted = ParametersOfChosen)
    /\ [][ AtParameter =>
             IF MovedOn
             THEN /\ shown' = "accepted"
                  /\ Valid(parameters'[Current])
                  /\ accepted' = Append(accepted, Current)
                  /\ pc' \in {"PromptParameter", "AskGroupOverride", "build_command"}
             ELSE /\ accepted' = accepted
                  /\ shown' \in {"click error", "validation error"} ]_vars

\* The prompting is over: `genome` and `ratio` of the chosen first group were
\* each accepted once, after two refused inputs; the second group was skipped.
PromptingEndsOnlyByAcceptanceWitness ==
    /\ pc = "build_command"
    /\ chosen = << 1 >>
    /\ accepted = << 1, 3 >>
    /\ retries = MaxRetries
    /\ Len(grouped_parameters) = 2

\* ------------------------------------------------ properties of the files

\* The paths that have been written.
WrittenPaths == { files[j].k : j \in 1..Len(files) }

OutputPaths == { PathJoin(cwd, NfxParamsName), PathJoin(cwd, FullParamsName) }

\* C22: each of the two output files is written at most once, only by
\* build_command and only in file mode; in inline mode no file is written.
FilesWrittenOnceByBuild ==
    /\ [](IF Built /\ use_params_file
          THEN Len(files) = 2 /\ WrittenPaths = OutputPaths
          ELSE files = << >>)
    /\ [][ files' # files => (pc = "build_command" /\ use_params_file /\ files = << >>) ]_vars

\* File mode, after build_command: the two files are there, once each.
FilesWrittenOnceByBuildWitness ==
    /\ Built
    /\ use_params_file
    /\ Len(files) = 2
    /\ files[1].k = PathJoin(cwd, NfxParamsName)
    /\ files[2].k = PathJoin(cwd, FullParamsName)
    /\ Len(parameters) > 0

\* ------------------------------------------ the frame of build and launch

\* The interactive session is over.
AfterSession == pc = "build_command" \/ Built

\* C23: build_command and launch_workflow leave the catalog, its grouping and
\* the two Override Sets as the session left them; build_command changes the
\* command text and the files (and logs its warnings), nothing else.
BuilderLeavesCatalogAndOverrides ==
    [][ AfterSession =>
          /\ UNCHANGED << parameters, grouped_parameters, nxf_flags, params_user >>
          /\ (pc = "build_command" =>
                UNCHANGED << local_wf, calls, given, position, console,
                             displayed, executed >>) ]_vars

\* A launched session in which a flag and a parameter were overridden.
BuilderLeavesCatalogAndOverridesWitness ==
    /\ pc = "done"
    /\ Len(nxf_flags) > 0
    /\ \E i \in 1..Len(parameters) : Changed(parameters[i])
    /\ Len(executed) = 1
    /\ nextflow_cmd # BaseCmd

\* ------------------------------------------------ schema or fallback, not both

NamesOf(params) == [i \in 1..Len(params) |-> params[i].name]

\* The catalog has been filled.
CatalogReady == pc \notin {"get_local_wf", "parse_parameter_settings",
                           "collect_pipeline_param_defaults", "aborted"}

SchemaGaveParameters == schema.file = "ok" /\ Len(schema.params) > 0

\* C24: the fallback is consulted iff the catalog is empty once the schema has
\* been loaded; a schema with a parameter keeps the fallback out, so that the
\* catalog is the schema's parameters or the inferred ones, never both.
FallbackIffCatalogEmpty ==
    /\ [][ (pc = "parse_parameter_settings" /\ pc' # "aborted") =>
             /\ (pc' = "collect_pipeline_param_defaults" <=> Len(parameters') = 0)
             /\ (pc' = "group_parameters" <=> Len(parameters') > 0) ]_vars
    /\ [](pc = "collect_pipeline_param_defaults" => parameters = << >>)
    /\ [](CatalogReady =>
            NamesOf(parameters) =
              IF SchemaGaveParameters THEN NamesOf(schema.params)
              ELSE NamesOf(CollectParams(config.items, << >>)))

\* The schema declares a parameter and the fallback map has entries too: the
\* catalog is the schema's.
FallbackIffCatalogEmptyWitness ==
    /\ pc = "group_parameters"
    /\ SchemaGaveParameters
    /\ config.ok
    /\ Len(CollectParams(config.items, << >>)) > 0
    /\ NamesOf(parameters) = NamesOf(schema.params)

\* ------------------------------------------------------------------ direct

\* Every run flag has been prompted for and answered.
AllFlagsAnswered ==
    /\ flag_i = Len(nxf_flag_defaults) + 1
    /\ \A i \in 1..Len(nxf_flag_defaults) : Answered(i)

\* C25: with `direct` no group question and no parameter prompt is issued
\* and every parameter keeps its default, while the run flags are prompted
\* for, and the command, with the params file holding the defaults, is built
\* and shown for confirmation.
DirectSkipsParameterPrompts ==
    direct =>
      /\ pc \notin {"AskGroupOverride", "PromptParameter"}
      /\ chosen = << >>
      /\ accepted = << >>
      /\ \A i \in 1..Len(parameters) : ~Changed(parameters[i])
      /\ AfterSession => AllFlagsAnswered
      /\ (Built /\ use_params_file) =>
           /\ HasKey(files, PathJoin(cwd, NfxParamsName))
           /\ \A i \in 1..Len(parameters) :
                GetItem(ParamsFile, parameters[i].name) = parameters[i].default_value
           /\ Cardinality(Occurrences(nextflow_cmd, FileRefToken)) = 1
      /\ pc \in {"ConfirmRun", "done"} => displayed = << nextflow_cmd >>

\* A direct session over the catalog of three, a run flag overridden, the
\* command confirmed and run.
DirectSkipsParameterPromptsWitness ==
    /\ direct
    /\ pc = "done"
    /\ Len(parameters) = 3
    /\ Len(grouped_parameters) = 2
    /\ Len(nxf_flags) > 0
    /\ executed = << nextflow_cmd >>

\* ------------------------------------------------ the name and the command

\* The token build_command's rule gives for one entry of params_user.
ExpectedParamToken(entry) ==
    IF entry.v = PyBool(TRUE) THEN << " ", "-", "-" >> \o entry.k
    ELSE IF entry.v = PyBool(FALSE) THEN << >>
    ELSE << " ", "-", "-" >> \o entry.k \o << " ", "\"" >> \o Backslashed(entry.v.s) \o << "\"" >>

ExpectedParamsPart == Concat([i \in 1..Len(params_user) |-> ExpectedParamToken(params_user[i])])

\* The name qualifies for the prefix.
SeemsSensible(name, exists) ==
    /\ Occurrences(name, NfCoreText) = {}
    /\ Occurrences(name, << "/" >>) = {}
    /\ ~exists

\* C26: __init__ puts 'nf-core/' before the name iff the name has no
\* 'nf-core' in it, has no '/', and is not an existing path; the result is
\* never prefixed again; the command begins with 'nextflow run <workflow>',
\* then come the run-flag tokens, then the params-file reference or the inline
\* parameter tokens.
NormalizedNameLeadsTheCommand ==
    /\ [][ pc = "Launch" =>
             /\ workflow' = IF SeemsSensible(workflow, is_path)
                            THEN NfCorePrefix \o workflow ELSE workflow
             /\ NormalizeWorkflow(workflow', is_path) = workflow'
             /\ (workflow' # workflow =>
                   \A exists \in BOOLEAN : NormalizeWorkflow(workflow', exists) = workflow')
             /\ nextflow_cmd' = NextflowRunText \o workflow' ]_vars
    /\ [](Built =>
            nextflow_cmd = NextflowRunText \o workflow \o ExpectedFlagsPart
                             \o (IF use_params_file THEN FileRefToken ELSE ExpectedParamsPart))

\* The name `a`, no local path, became nf-core/a, and the command is built
\* with a run flag and the reference to the params file.
NormalizedNameLeadsTheCommandWitness ==
    /\ Built
    /\ ~is_path
    /\ workflow = NfCorePrefix \o << "a" >>
    /\ Len(nxf_flags) > 0
    /\ use_params_file
    /\ Occurrences(nextflow_cmd, NfCorePrefix) = {Len(NextflowRunText) + 1}

=============================================================================
